---- MODULE Spec2Model ----
(***************************************************************************)
(* Credential and token lifecycle of the coffee-shop API: signup, login,   *)
(* refresh, email verification, the access-token verifier, user update and *)
(* the two retention jobs, over one shared store (users,                   *)
(* verification_tokens, refresh_tokens) and one clock.                     *)
(* Time is counted in minutes.                                             *)
(***************************************************************************)
EXTENDS Integers, FiniteSets, Sequences, TLC

VARIABLES users, vtokens, rtokens, nextUserId, nextVTokenId, nextRTokenId,
          now, ticks, pc, outbox, signedUp, resp

vars == <<users, vtokens, rtokens, nextUserId, nextVTokenId, nextRTokenId,
          now, ticks, pc, outbox, signedUp, resp>>

store == <<users, vtokens, rtokens, nextUserId, nextVTokenId, nextRTokenId>>

(***************************************************************************)
(* Bounds of the model.                                                    *)
(***************************************************************************)
\* number of User rows ever inserted
MaxUsers == 2
\* number of clock advances
MaxTicks == 1
\* amounts (minutes) by which the clock advances in one step: the lifetime of
\* a verification token, and one minute more than the retention age of an
\* unverified user
TickSteps == {15, 2881}
\* request inputs
Emails == {"a@x.com", "b@x.com"}
Passwords == {"GoodPass123!", "OtherPass123!"}
\* concurrent signup requests
Procs == {"r1", "r2"}

(***************************************************************************)
(* Program constants.                                                      *)
(***************************************************************************)
ACCESS_TOKEN_EXPIRE_MINUTES == 30
REFRESH_TOKEN_EXPIRE_DAYS == 7
VERIFICATION_TOKEN_EXPIRE_MINUTES == 15
DAYS_OLD == 2
BATCH_SIZE == 100
MINUTES_PER_DAY == 1440
JWT_SECRET_KEY == "JWT_SECRET_KEY"
JWT_REFRESH_SECRET_KEY == "JWT_REFRESH_SECRET_KEY"
EMAIL_VERIFICATION_ENABLED == TRUE
UserRole == {"ADMIN", "USER"}
TokenType == {"access", "refresh"}

\* SQL NULL in a timestamp column
NULL == -1

(***************************************************************************)
(* PasswordHasher: a salted one-way digest; only verify relates a digest   *)
(* to its plaintext.                                                       *)
(***************************************************************************)
get_password_hash(password) == <<"bcrypt", password>>

verify_password(plain_password, hashed_password) ==
    hashed_password[1] = "bcrypt" /\ hashed_password[2] = plain_password

(***************************************************************************)
(* TokenIssuer.  A token string is determined by its claims and the key    *)
(* that signed it; "garbage" stands for a string that is not a JWT.        *)
(***************************************************************************)
NoToken == [sub |-> 0, type |-> "none", iat |-> 0, exp |-> 0, key |-> "none"]
Garbage == [sub |-> 0, type |-> "garbage", iat |-> 0, exp |-> 0, key |-> "none"]

create_token(sub, token_type, expires_delta, t) ==
    [sub |-> sub, type |-> token_type, iat |-> t, exp |-> t + expires_delta,
     key |-> JWT_SECRET_KEY]

create_access_token(sub, t) ==
    create_token(sub, "access", ACCESS_TOKEN_EXPIRE_MINUTES, t)

create_refresh_token(sub, t) ==
    create_token(sub, "refresh", REFRESH_TOKEN_EXPIRE_DAYS * MINUTES_PER_DAY, t)

\* jose jwt.decode: signature under `key`, then exp (expired when exp < now)
jwt_decode_ok(token, key, t) ==
    /\ token.type \in TokenType
    /\ token.key = key
    /\ ~(token.exp < t)

\* verify_token: the payload, or HTTPException(400, "Invalid token")
verify_token_ok(token, t) == jwt_decode_ok(token, JWT_SECRET_KEY, t)

(***************************************************************************)
(* Responses.  `case` and `token_type` are history fields: the situation   *)
(* of the request in the state it ran in, and the type claim of the token  *)
(* it presented.                                                           *)
(***************************************************************************)
Response(op, status, detail, access_token, refresh_token, case) ==
    [op |-> op, status |-> status, detail |-> detail,
     access_token |-> access_token, refresh_token |-> refresh_token,
     case |-> case, token_type |-> "none", user_id |-> 0,
     deleted_count |-> 0,
     deleted_refresh_tokens |-> 0, deleted_verification_tokens |-> 0]

HTTPException(op, status, detail, case) ==
    Response(op, status, detail, NoToken, NoToken, case)

\* app.main.global_exception_handler: any non-HTTP exception
global_exception_handler(op, case) ==
    Response(op, 500, "Internal server error", NoToken, NoToken, case)

(***************************************************************************)
(* Store constraints declared by the models.                               *)
(***************************************************************************)
\* the unique index on users.email is missing
UserEmailUnique_Dropped(rows, email) == TRUE

\* users.email: unique=True
UserEmailUnique(rows, email) == \A u \in rows : u.email # email

\* refresh_tokens: created_at nullable=False (no default), user_id FK
RefreshTokenInsertable(row) ==
    /\ row.created_at # NULL
    /\ \E u \in users : u.id = row.user_id

\* users rows referenced by a token row cannot be deleted (FK, no cascade)
UserReferenced(u) ==
    \/ \E v \in vtokens : v.user_id = u.id
    \/ \E r \in rtokens : r.user_id = u.id

(***************************************************************************)
(* Initial state: empty tables, no request in flight.                      *)
(***************************************************************************)
Idle == [state |-> "idle", email |-> "", password |-> "", role |-> "USER"]

Init ==
    /\ users = {}
    /\ vtokens = {}
    /\ rtokens = {}
    /\ nextUserId = 1
    /\ nextVTokenId = 1
    /\ nextRTokenId = 1
    /\ now = 0
    /\ ticks = 0
    /\ pc = [p \in Procs |-> Idle]
    /\ outbox = {}
    /\ signedUp = {}
    /\ resp = Response("init", 0, "", NoToken, NoToken, "")

Tick(d) ==
    /\ ticks < MaxTicks
    /\ now' = now + d
    /\ ticks' = ticks + 1
    /\ UNCHANGED <<store, pc, outbox, signedUp, resp>>

(***************************************************************************)
(* POST /auth/signup.  The handler awaits the store between its existence  *)
(* check and its insert, so two requests can interleave there; the insert  *)
(* of the user and of its verification token is one transaction.           *)
(***************************************************************************)
\* the handler inserts without looking for an existing user
SignupCheck_NoExistenceCheck(p, email, password, role) ==
    /\ pc[p].state = "idle"
    /\ nextUserId <= MaxUsers
    /\ pc' = [pc EXCEPT ![p] = [state |-> "checked", email |-> email,
                                password |-> password, role |-> role]]
    /\ UNCHANGED <<store, now, ticks, outbox, signedUp, resp>>

SignupCheck(p, email, password, role) ==
    /\ pc[p].state = "idle"
    /\ IF \E u \in users : u.email = email
       THEN /\ resp' = HTTPException("signup", 400, "Email already registered",
                                     "duplicate")
            /\ UNCHANGED pc
       ELSE /\ nextUserId <= MaxUsers
            /\ pc' = [pc EXCEPT ![p] = [state |-> "checked", email |-> email,
                                        password |-> password, role |-> role]]
            /\ UNCHANGED resp
    /\ UNCHANGED <<store, now, ticks, outbox, signedUp>>

\* the request passed its existence check; has the email been taken since?
SignupCase(p) ==
    IF \E u \in users : u.email = pc[p].email THEN "lost_race" ELSE "new"

\* the user is committed before, and without, its verification token
SignupCommit_UserOnly(p) ==
    /\ pc[p].state = "checked"
    /\ pc' = [pc EXCEPT ![p] = Idle]
    /\ IF ~UserEmailUnique(users, pc[p].email)
       THEN /\ resp' = global_exception_handler("signup", SignupCase(p))
            /\ UNCHANGED <<store, outbox, signedUp>>
       ELSE /\ nextUserId <= MaxUsers
            /\ users' = users \cup
                 {[id |-> nextUserId, email |-> pc[p].email,
                   hashed_password |-> get_password_hash(pc[p].password),
                   is_verified |-> FALSE, role |-> pc[p].role,
                   created_at |-> now]}
            /\ nextUserId' = nextUserId + 1
            /\ signedUp' = signedUp \cup {pc[p].email}
            /\ resp' = Response("signup", 201,
                         "User registered successfully. Please check your email to verify your account.",
                         NoToken, NoToken, SignupCase(p))
            /\ UNCHANGED <<vtokens, nextVTokenId, outbox, rtokens,
                           nextRTokenId>>
    /\ UNCHANGED <<now, ticks>>

SignupCommit(p) ==
    /\ pc[p].state = "checked"
    /\ pc' = [pc EXCEPT ![p] = Idle]
    /\ IF ~UserEmailUnique(users, pc[p].email)
       THEN \* IntegrityError at flush: rolled back, not an HTTPException
            /\ resp' = global_exception_handler("signup", SignupCase(p))
            /\ UNCHANGED <<store, outbox, signedUp>>
       ELSE /\ nextUserId <= MaxUsers
            /\ users' = users \cup
                 {[id |-> nextUserId, email |-> pc[p].email,
                   hashed_password |-> get_password_hash(pc[p].password),
                   is_verified |-> FALSE, role |-> pc[p].role,
                   created_at |-> now]}
            /\ vtokens' = vtokens \cup
                 {[id |-> nextVTokenId, user_id |-> nextUserId,
                   token |-> nextVTokenId,
                   token_type |-> "email_verification",
                   expires_at |-> now + VERIFICATION_TOKEN_EXPIRE_MINUTES,
                   is_used |-> FALSE, revoked |-> FALSE]}
            /\ nextUserId' = nextUserId + 1
            /\ nextVTokenId' = nextVTokenId + 1
            /\ outbox' = IF EMAIL_VERIFICATION_ENABLED
                         THEN outbox \cup {nextVTokenId} ELSE outbox
            /\ signedUp' = signedUp \cup {pc[p].email}
            /\ resp' = Response("signup", 201,
                         "User registered successfully. Please check your email to verify your account.",
                         NoToken, NoToken, SignupCase(p))
            /\ UNCHANGED <<rtokens, nextRTokenId>>
    /\ UNCHANGED <<now, ticks>>

(***************************************************************************)
(* POST /auth/login                                                        *)
(***************************************************************************)
LoginCase(email, password) ==
    LET found == {u \in users : u.email = email}
    IN  IF found = {} THEN "no_user"
        ELSE IF \A u \in found : ~verify_password(password, u.hashed_password)
             THEN "bad_password"
        ELSE IF \A u \in found : ~u.is_verified THEN "unverified"
        ELSE "verified"

\* RefreshToken(user_id=user.id, token=refresh_token, expires_at=expires_at):
\* the row login hands to the session; created_at is not given and the
\* column has no default
RefreshTokenRow(user) ==
    [id |-> nextRTokenId, user_id |-> user.id,
     token |-> create_refresh_token(user.id, now),
     created_at |-> NULL,
     expires_at |-> now + REFRESH_TOKEN_EXPIRE_DAYS * MINUTES_PER_DAY,
     revoked |-> FALSE]

\* issue the token pair and persist the refresh token row
create_tokens(user, case) ==
    LET access_token == create_access_token(user.id, now)
        refresh_token == create_refresh_token(user.id, now)
        db_refresh_token == RefreshTokenRow(user)
    IN  IF RefreshTokenInsertable(db_refresh_token)
        THEN /\ rtokens' = rtokens \cup {db_refresh_token}
             /\ nextRTokenId' = nextRTokenId + 1
             /\ resp' = Response("login", 200, "bearer", access_token,
                                 refresh_token, case)
             /\ UNCHANGED <<users, vtokens, nextUserId, nextVTokenId>>
        ELSE \* IntegrityError at commit: rolled back, not an HTTPException
             /\ resp' = global_exception_handler("login", case)
             /\ UNCHANGED store

\* the handler issues tokens without looking at is_verified
login_NoVerifiedCheck(email, password) ==
    LET found == {u \in users : u.email = email}
        case == LoginCase(email, password)
    IN  /\ IF found = {} \/ \A u \in found :
                               ~verify_password(password, u.hashed_password)
           THEN /\ resp' = HTTPException("login", 400,
                             "Incorrect email or password", case)
                /\ UNCHANGED store
           ELSE create_tokens(CHOOSE u \in found : TRUE, case)
        /\ UNCHANGED <<now, ticks, pc, outbox, signedUp>>

\* the handler tells an unknown email from a wrong password
login_UserNotFound(email, password) ==
    LET found == {u \in users : u.email = email}
        case == LoginCase(email, password)
    IN  /\ IF found = {}
           THEN /\ resp' = HTTPException("login", 404, "User not found", case)
                /\ UNCHANGED store
           ELSE IF \A u \in found :
                      ~verify_password(password, u.hashed_password)
           THEN /\ resp' = HTTPException("login", 400,
                             "Incorrect email or password", case)
                /\ UNCHANGED store
           ELSE LET user == CHOOSE u \in found : TRUE
                IN  IF ~user.is_verified
                    THEN /\ resp' = HTTPException("login", 400,
                                      "Email not verified", case)
                         /\ UNCHANGED store
                    ELSE create_tokens(user, case)
        /\ UNCHANGED <<now, ticks, pc, outbox, signedUp>>

login(email, password) ==
    LET found == {u \in users : u.email = email}
        case == LoginCase(email, password)
    IN  /\ IF found = {} \/ \A u \in found :
                               ~verify_password(password, u.hashed_password)
           THEN /\ resp' = HTTPException("login", 400,
                             "Incorrect email or password", case)
                /\ UNCHANGED store
           ELSE LET user == CHOOSE u \in found : TRUE
                IN  IF ~user.is_verified
                    THEN /\ resp' = HTTPException("login", 400,
                                      "Email not verified", case)
                         /\ UNCHANGED store
                    ELSE create_tokens(user, case)
        /\ UNCHANGED <<now, ticks, pc, outbox, signedUp>>

(***************************************************************************)
(* Tokens a caller can present: what the issuer produces for a verified    *)
(* user (the only users login issues for), dated at the user's creation or *)
(* at the present instant; such a token re-signed with the other           *)
(* configured key; and a string that is not a token.                       *)
(***************************************************************************)
IssuedTokens ==
    UNION {{create_access_token(u.id, t), create_refresh_token(u.id, t)} :
             u \in {v \in users : v.is_verified}, t \in {now}}
    \cup UNION {{create_access_token(u.id, u.created_at),
                 create_refresh_token(u.id, u.created_at)} :
                   u \in {v \in users : v.is_verified}}

PresentableTokens ==
    IssuedTokens
    \cup {[token EXCEPT !.key = JWT_REFRESH_SECRET_KEY] :
             token \in {i \in IssuedTokens : i.iat = now}}
    \cup {Garbage}

(***************************************************************************)
(* POST /auth/refresh                                                      *)
(***************************************************************************)
RefreshCase(token) ==
    IF token.type \notin TokenType THEN "malformed"
    ELSE IF token.key # JWT_SECRET_KEY THEN "bad_signature"
    ELSE IF token.exp < now THEN "expired_claims"
    ELSE IF token.type # "refresh" THEN "wrong_type"
    ELSE IF \A r \in rtokens : r.token # token THEN "no_row"
    ELSE IF \A r \in rtokens : r.token = token => r.revoked THEN "revoked_row"
    ELSE IF \A r \in rtokens :
                (r.token = token /\ ~r.revoked) => ~(r.expires_at > now)
         THEN "expired_row"
    ELSE "live"

\* the try block without the test of the type claim
RefreshClaimsOK_NoTypeCheck(token) == verify_token_ok(token, now)

\* the try block: verify_token, then the type claim
RefreshClaimsOK(token) ==
    verify_token_ok(token, now) /\ token.type = "refresh"

\* the handler revokes the stored row it has used (one-time tokens)
refresh_token_RevokesRow(token) ==
    LET found == {r \in rtokens : /\ r.token = token
                                  /\ r.revoked = FALSE
                                  /\ r.expires_at > now}
        case == RefreshCase(token)
    IN  /\ IF ~RefreshClaimsOK(token)
           THEN /\ resp' = [HTTPException("refresh", 400,
                                          "Invalid refresh token", case)
                              EXCEPT !.token_type = token.type]
                /\ UNCHANGED store
           ELSE IF found = {}
           THEN /\ resp' = [HTTPException("refresh", 400,
                               "Invalid or expired refresh token", case)
                              EXCEPT !.token_type = token.type]
                /\ UNCHANGED store
           ELSE LET row == CHOOSE r \in found : TRUE
                IN  /\ resp' = [Response("refresh", 200, "bearer",
                                   create_access_token(row.user_id, now),
                                   token, case)
                                  EXCEPT !.token_type = token.type]
                    /\ rtokens' = (rtokens \ {row}) \cup
                                     {[row EXCEPT !.revoked = TRUE]}
                    /\ UNCHANGED <<users, vtokens, nextUserId, nextVTokenId,
                                   nextRTokenId>>
        /\ UNCHANGED <<now, ticks, pc, outbox, signedUp>>

\* the row lookup without the revoked filter
refresh_token_NoRevokedFilter(token) ==
    LET found == {r \in rtokens : /\ r.token = token
                                  /\ r.expires_at > now}
        case == RefreshCase(token)
        answer ==
            IF ~RefreshClaimsOK(token)
            THEN HTTPException("refresh", 400, "Invalid refresh token", case)
            ELSE IF found = {}
            THEN HTTPException("refresh", 400,
                               "Invalid or expired refresh token", case)
            ELSE LET row == CHOOSE r \in found : TRUE
                 IN  Response("refresh", 200, "bearer",
                              create_access_token(row.user_id, now), token,
                              case)
    IN  /\ resp' = [answer EXCEPT !.token_type = token.type]
        /\ UNCHANGED <<store, now, ticks, pc, outbox, signedUp>>

\* the new access token is issued for the sub claim of the presented token
refresh_token_SubFromClaims(token) ==
    LET found == {r \in rtokens : /\ r.token = token
                                  /\ r.revoked = FALSE
                                  /\ r.expires_at > now}
        case == RefreshCase(token)
        answer ==
            IF ~RefreshClaimsOK(token)
            THEN HTTPException("refresh", 400, "Invalid refresh token", case)
            ELSE IF found = {}
            THEN HTTPException("refresh", 400,
                               "Invalid or expired refresh token", case)
            ELSE Response("refresh", 200, "bearer",
                          create_access_token(token.sub, now), token, case)
    IN  /\ resp' = [answer EXCEPT !.token_type = token.type]
        /\ UNCHANGED <<store, now, ticks, pc, outbox, signedUp>>

refresh_token(token) ==
    LET found == {r \in rtokens : /\ r.token = token
                                  /\ r.revoked = FALSE
                                  /\ r.expires_at > now}
        case == RefreshCase(token)
        answer ==
            IF ~RefreshClaimsOK(token)
            THEN HTTPException("refresh", 400, "Invalid refresh token", case)
            ELSE IF found = {}
            THEN HTTPException("refresh", 400,
                               "Invalid or expired refresh token", case)
            ELSE LET row == CHOOSE r \in found : TRUE
                 IN  Response("refresh", 200, "bearer",
                              create_access_token(row.user_id, now), token,
                              case)
    IN  /\ resp' = [answer EXCEPT !.token_type = token.type]
        /\ UNCHANGED <<store, now, ticks, pc, outbox, signedUp>>

(***************************************************************************)
(* POST /auth/verify                                                       *)
(***************************************************************************)
\* a consumed token is told apart from an unknown one
verify_email_ReportsUsed(value) ==
    LET found == {t \in vtokens : /\ t.token = value
                                  /\ t.token_type = "email_verification"
                                  /\ t.revoked = FALSE
                                  /\ t.expires_at > now}
    IN  /\ IF found = {}
           THEN /\ resp' = IF \E t \in vtokens : t.token = value /\ t.revoked
                            THEN HTTPException("verify", 409,
                                   "Verification token already used",
                                   "dead_token")
                            ELSE HTTPException("verify", 400,
                                   "Invalid or expired verification token",
                                   IF \E t \in vtokens : t.token = value
                                   THEN "dead_token" ELSE "no_token")
                /\ UNCHANGED store
           ELSE LET token == CHOOSE t \in found : TRUE
                    owner == {u \in users : u.id = token.user_id}
                IN  IF owner = {}
                    THEN /\ resp' = HTTPException("verify", 404,
                                      "User not found", "no_user")
                         /\ UNCHANGED store
                    ELSE /\ users' = {IF u \in owner
                                      THEN [u EXCEPT !.is_verified = TRUE]
                                      ELSE u : u \in users}
                         /\ vtokens' = (vtokens \ {token}) \cup
                                         {[token EXCEPT !.revoked = TRUE]}
                         /\ resp' = Response("verify", 200,
                                      "Email verified successfully",
                                      NoToken, NoToken, "live_token")
                         /\ UNCHANGED <<rtokens, nextUserId, nextVTokenId,
                                        nextRTokenId>>
        /\ UNCHANGED <<now, ticks, pc, outbox, signedUp>>

\* the lookup without the expiry filter
verify_email_NoExpiryCheck(value) ==
    LET found == {t \in vtokens : /\ t.token = value
                                  /\ t.token_type = "email_verification"
                                  /\ t.revoked = FALSE}
    IN  /\ IF found = {}
           THEN /\ resp' = HTTPException("verify", 400,
                             "Invalid or expired verification token",
                             IF \E t \in vtokens : t.token = value
                             THEN "dead_token" ELSE "no_token")
                /\ UNCHANGED store
           ELSE LET token == CHOOSE t \in found : TRUE
                    owner == {u \in users : u.id = token.user_id}
                IN  IF owner = {}
                    THEN /\ resp' = HTTPException("verify", 404,
                                      "User not found", "no_user")
                         /\ UNCHANGED store
                    ELSE /\ users' = {IF u \in owner
                                      THEN [u EXCEPT !.is_verified = TRUE]
                                      ELSE u : u \in users}
                         /\ vtokens' = (vtokens \ {token}) \cup
                                         {[token EXCEPT !.revoked = TRUE]}
                         /\ resp' = Response("verify", 200,
                                      "Email verified successfully",
                                      NoToken, NoToken, "live_token")
                         /\ UNCHANGED <<rtokens, nextUserId, nextVTokenId,
                                        nextRTokenId>>
        /\ UNCHANGED <<now, ticks, pc, outbox, signedUp>>

\* a request that presents an expired token deletes the token row
verify_email_DropsDeadToken(value) ==
    LET found == {t \in vtokens : /\ t.token = value
                                  /\ t.token_type = "email_verification"
                                  /\ t.revoked = FALSE
                                  /\ t.expires_at > now}
    IN  /\ IF found = {}
           THEN /\ resp' = HTTPException("verify", 400,
                             "Invalid or expired verification token",
                             IF \E t \in vtokens : t.token = value
                             THEN "dead_token" ELSE "no_token")
                /\ vtokens' = {t \in vtokens : t.token # value}
                /\ UNCHANGED <<users, rtokens, nextUserId, nextVTokenId,
                               nextRTokenId>>
           ELSE LET token == CHOOSE t \in found : TRUE
                    owner == {u \in users : u.id = token.user_id}
                IN  IF owner = {}
                    THEN /\ resp' = HTTPException("verify", 404,
                                      "User not found", "no_user")
                         /\ UNCHANGED store
                    ELSE /\ users' = {IF u \in owner
                                      THEN [u EXCEPT !.is_verified = TRUE]
                                      ELSE u : u \in users}
                         /\ vtokens' = (vtokens \ {token}) \cup
                                         {[token EXCEPT !.revoked = TRUE]}
                         /\ resp' = Response("verify", 200,
                                      "Email verified successfully",
                                      NoToken, NoToken, "live_token")
                         /\ UNCHANGED <<rtokens, nextUserId, nextVTokenId,
                                        nextRTokenId>>
        /\ UNCHANGED <<now, ticks, pc, outbox, signedUp>>

verify_email(value) ==
    LET found == {t \in vtokens : /\ t.token = value
                                  /\ t.token_type = "email_verification"
                                  /\ t.revoked = FALSE
                                  /\ t.expires_at > now}
    IN  /\ IF found = {}
           THEN /\ resp' = HTTPException("verify", 400,
                             "Invalid or expired verification token",
                             IF \E t \in vtokens : t.token = value
                             THEN "dead_token" ELSE "no_token")
                /\ UNCHANGED store
           ELSE LET token == CHOOSE t \in found : TRUE
                    owner == {u \in users : u.id = token.user_id}
                IN  IF owner = {}
                    THEN /\ resp' = HTTPException("verify", 404,
                                      "User not found", "no_user")
                         /\ UNCHANGED store
                    ELSE /\ users' = {IF u \in owner
                                      THEN [u EXCEPT !.is_verified = TRUE]
                                      ELSE u : u \in users}
                         /\ vtokens' = (vtokens \ {token}) \cup
                                         {[token EXCEPT !.revoked = TRUE]}
                         /\ resp' = Response("verify", 200,
                                      "Email verified successfully",
                                      NoToken, NoToken, "live_token")
                         /\ UNCHANGED <<rtokens, nextUserId, nextVTokenId,
                                        nextRTokenId>>
        /\ UNCHANGED <<now, ticks, pc, outbox, signedUp>>

(***************************************************************************)
(* app.core.security.get_current_user: the access-token verifier.          *)
(***************************************************************************)
\* fields TokenData declares as required
TokenDataRequired == {"sub", "type", "exp", "iat", "iss"}

\* TokenData(**kwargs) raises ValidationError unless every required field
\* is among the keyword arguments
TokenDataValid(kwargs) == TokenDataRequired \subseteq kwargs

SecurityScopes == {{}, {"user:read"}}

\* payload.get("scopes", []): issued tokens carry no scopes claim
TokenScopes(token) == {}

\* the presented token, as the verifier's checks meet it
CredentialCase(token) ==
    IF token.type \notin TokenType THEN "malformed"
    ELSE IF token.key # JWT_SECRET_KEY THEN "bad_signature"
    ELSE IF token.exp < now THEN "expired_claims"
    ELSE IF token.type # "access" THEN "wrong_type"
    ELSE "access"

\* the verifier without the test of the type claim
get_current_user_NoTypeCheck(token, scopes) ==
    LET case == CredentialCase(token)
        answer ==
            IF ~jwt_decode_ok(token, JWT_SECRET_KEY, now)
            THEN HTTPException("get_current_user", 401,
                               "Could not validate credentials", case)
            ELSE IF ~TokenDataValid({"scopes", "user_id"})
            THEN HTTPException("get_current_user", 401,
                               "Could not validate credentials", case)
            ELSE IF ~(scopes \subseteq TokenScopes(token))
            THEN HTTPException("get_current_user", 403,
                               "Not enough permissions", case)
            ELSE [Response("get_current_user", 200, "", NoToken, NoToken,
                           case) EXCEPT !.user_id = token.sub]
    IN  /\ resp' = [answer EXCEPT !.token_type = token.type]
        /\ UNCHANGED <<store, now, ticks, pc, outbox, signedUp>>

get_current_user(token, scopes) ==
    LET case == CredentialCase(token)
        answer ==
            IF ~jwt_decode_ok(token, JWT_SECRET_KEY, now)
            THEN HTTPException("get_current_user", 401,
                               "Could not validate credentials", case)
            ELSE IF token.type # "access"
            THEN HTTPException("get_current_user", 401, "Invalid token type",
                               case)
            ELSE IF ~TokenDataValid({"scopes", "user_id"})
            THEN HTTPException("get_current_user", 401,
                               "Could not validate credentials", case)
            ELSE IF ~(scopes \subseteq TokenScopes(token))
            THEN HTTPException("get_current_user", 403,
                               "Not enough permissions", case)
            ELSE [Response("get_current_user", 200, "", NoToken, NoToken,
                           case) EXCEPT !.user_id = token.sub]
    IN  /\ resp' = [answer EXCEPT !.token_type = token.type]
        /\ UNCHANGED <<store, now, ticks, pc, outbox, signedUp>>

(***************************************************************************)
(* PATCH /users/{user_id}                                                  *)
(***************************************************************************)
Unset == "unset"

\* UserUpdate: first_name, last_name, password, each optional; the name
\* fields are not part of the modelled row
UserUpdateInputs == [password : Passwords \cup {Unset}]

\* the update schema carries is_verified and the caller clears it
ApplyUpdates_ResetsVerified(user, updates) ==
    [user EXCEPT !.is_verified = FALSE]

\* model_dump(exclude_unset=True), password -> hashed_password, setattr
ApplyUpdates(user, updates) ==
    IF updates.password # Unset
    THEN [user EXCEPT !.hashed_password = get_password_hash(updates.password)]
    ELSE user

\* Depends(get_current_user) of app.core.auth: the caller is a stored user
AuthenticatedUsers == users

update_user(current_user, user_id, updates) ==
    LET found == {u \in users : u.id = user_id}
    IN  /\ current_user \in AuthenticatedUsers
        /\ IF found = {}
           THEN /\ resp' = HTTPException("update_user", 404, "User not found",
                                         "no_user")
                /\ UNCHANGED store
           ELSE IF current_user.role # "ADMIN" /\ current_user.id # user_id
           THEN /\ resp' = HTTPException("update_user", 403,
                             "Not allowed to update this user", "forbidden")
                /\ UNCHANGED store
           ELSE /\ users' = {IF u \in found THEN ApplyUpdates(u, updates)
                             ELSE u : u \in users}
                /\ resp' = Response("update_user", 200, "", NoToken, NoToken,
                                     "updated")
                /\ UNCHANGED <<vtokens, rtokens, nextUserId, nextVTokenId,
                               nextRTokenId>>
        /\ UNCHANGED <<now, ticks, pc, outbox, signedUp>>

(***************************************************************************)
(* Retention jobs (app.tasks.cleanup), each run taken as one step.         *)
(***************************************************************************)
\* the cleanup passes over expired rows that are not revoked
cleanup_expired_tokens_RevokedOnly ==
    LET refresh_tokens == {r \in rtokens : r.expires_at < now /\ r.revoked}
        verification_tokens ==
            {v \in vtokens : v.expires_at < now /\ v.revoked}
    IN  /\ rtokens' = rtokens \ refresh_tokens
        /\ vtokens' = vtokens \ verification_tokens
        /\ resp' = [Response("cleanup_expired_tokens", 0, "success", NoToken,
                             NoToken, "")
                      EXCEPT !.deleted_refresh_tokens =
                                 Cardinality(refresh_tokens),
                             !.deleted_verification_tokens =
                                 Cardinality(verification_tokens)]
        /\ UNCHANGED <<users, nextUserId, nextVTokenId, nextRTokenId, now,
                       ticks, pc, outbox, signedUp>>

\* the cleanup also removes rows that expire at this very instant
cleanup_expired_tokens_AtExpiry ==
    LET refresh_tokens == {r \in rtokens : r.expires_at <= now}
        verification_tokens == {v \in vtokens : v.expires_at <= now}
    IN  /\ rtokens' = rtokens \ refresh_tokens
        /\ vtokens' = vtokens \ verification_tokens
        /\ resp' = [Response("cleanup_expired_tokens", 0, "success", NoToken,
                             NoToken, "")
                      EXCEPT !.deleted_refresh_tokens =
                                 Cardinality(refresh_tokens),
                             !.deleted_verification_tokens =
                                 Cardinality(verification_tokens)]
        /\ UNCHANGED <<users, nextUserId, nextVTokenId, nextRTokenId, now,
                       ticks, pc, outbox, signedUp>>

cleanup_expired_tokens ==
    LET refresh_tokens == {r \in rtokens : r.expires_at < now}
        verification_tokens == {v \in vtokens : v.expires_at < now}
    IN  /\ rtokens' = rtokens \ refresh_tokens
        /\ vtokens' = vtokens \ verification_tokens
        /\ resp' = [Response("cleanup_expired_tokens", 0, "success", NoToken,
                             NoToken, "")
                      EXCEPT !.deleted_refresh_tokens =
                                 Cardinality(refresh_tokens),
                             !.deleted_verification_tokens =
                                 Cardinality(verification_tokens)]
        /\ UNCHANGED <<users, nextUserId, nextVTokenId, nextRTokenId, now,
                       ticks, pc, outbox, signedUp>>

\* .limit(batch_size)
Batch(rows) ==
    IF Cardinality(rows) <= BATCH_SIZE THEN rows
    ELSE CHOOSE b \in SUBSET rows : Cardinality(b) = BATCH_SIZE

delete_unverified_users(days_old) ==
    LET cutoff_time == now - days_old * MINUTES_PER_DAY
        eligible == {u \in users : /\ u.is_verified = FALSE
                                   /\ u.created_at < cutoff_time}
        batch == Batch(eligible)
    IN  /\ IF \E u \in batch : UserReferenced(u)
           THEN \* IntegrityError on DELETE: the batch rolls back, self.retry
                /\ resp' = Response("delete_unverified_users", 0, "retry",
                                    NoToken, NoToken, "fk_violation")
                /\ UNCHANGED users
           ELSE \* with at most BATCH_SIZE eligible rows the second batch is
                \* empty and ends the loop
                /\ Cardinality(eligible) <= BATCH_SIZE
                /\ users' = users \ batch
                /\ resp' = [Response("delete_unverified_users", 0, "success",
                                     NoToken, NoToken, "")
                              EXCEPT !.deleted_count = Cardinality(batch)]
        /\ UNCHANGED <<vtokens, rtokens, nextUserId, nextVTokenId,
                       nextRTokenId, now, ticks, pc, outbox, signedUp>>

(***************************************************************************)
(* Specification                                                           *)
(***************************************************************************)
\* requests handled one at a time
SeqProcs == {"r1"}
\* passwords chosen at signup (update_user can set any of Passwords)
SignupPasswords == {"GoodPass123!"}

Signup(procs) ==
    \/ \E p \in procs, email \in Emails, password \in SignupPasswords,
          role \in UserRole : SignupCheck(p, email, password, role)
    \/ \E p \in procs : SignupCommit(p)

Next ==
    \/ \E d \in TickSteps : Tick(d)
    \/ Signup(SeqProcs)
    \/ \E email \in Emails, password \in Passwords : login(email, password)
    \/ \E token \in PresentableTokens : refresh_token(token)
    \/ \E value \in 0..MaxUsers : verify_email(value)
    \/ \E token \in PresentableTokens, scopes \in SecurityScopes :
          get_current_user(token, scopes)
    \/ \E current_user \in AuthenticatedUsers, user_id \in 1..MaxUsers,
          updates \in UserUpdateInputs :
          update_user(current_user, user_id, updates)
    \/ cleanup_expired_tokens
    \/ delete_unverified_users(DAYS_OLD)

Spec == Init /\ [][Next]_vars

\* concurrent signup requests against verification and the retention jobs
NextSignup ==
    \/ \E d \in TickSteps : Tick(d)
    \/ Signup(Procs)
    \/ \E value \in 0..MaxUsers : verify_email(value)
    \/ cleanup_expired_tokens
    \/ delete_unverified_users(DAYS_OLD)

SpecSignup == Init /\ [][NextSignup]_vars

(***************************************************************************)
(* Signup                                                                  *)
(***************************************************************************)
DuplicateEmail ==
    HTTPException("signup", 400, "Email already registered", "duplicate")

\* the signup request of p for email is refused as a duplicate and writes
\* nothing
SignupRefused(p) ==
    /\ resp' = DuplicateEmail
    /\ pc'[p] = Idle
    /\ users' = users
    /\ vtokens' = vtokens

\* C1 as stated: once a signup with an email has succeeded, every signup
\* with that email that starts later is refused with 400 "Email already
\* registered" and adds no User row and no VerificationToken row.
C1_LaterSignupAlwaysRefused ==
    [][\A p \in Procs, email \in Emails, password \in SignupPasswords,
          role \in UserRole :
          (email \in signedUp /\ SignupCheck(p, email, password, role))
              => SignupRefused(p)]_vars

\* C1 amended: once a signup with an email has succeeded, every signup with
\* that email that starts while the User row of that email is still in the
\* store is refused with 400 "Email already registered" and adds no User row
\* and no VerificationToken row.
C1_SignupRefusedWhileUserExists ==
    [][\A p \in Procs, email \in Emails, password \in SignupPasswords,
          role \in UserRole :
          (/\ email \in signedUp
           /\ \E u \in users : u.email = email
           /\ SignupCheck(p, email, password, role))
              => SignupRefused(p)]_vars

C1_Witness ==
    /\ resp = DuplicateEmail
    /\ \E u \in users : u.email \in signedUp

\* C2: no two User rows have the same email, under every interleaving of
\* signup requests.
C2_EmailUnique ==
    \A u1 \in users, u2 \in users : u1.email = u2.email => u1 = u2

\* two requests for one email both passed the existence check, one of them
\* committed, and the insert of the other has been attempted
C2_Witness ==
    /\ resp.op = "signup"
    /\ resp.case = "lost_race"
    /\ users # {}

\* C3 as stated: the loser of a signup race for one email is answered with
\* the duplicate-email error (400), never with a 500.
C3_RaceLoserGetsConflict ==
    (resp.op = "signup" /\ resp.case = "lost_race")
        => (resp.status = 400 /\ resp.detail = "Email already registered")

(***************************************************************************)
(* Verification flag                                                       *)
(***************************************************************************)
VerifySucceeded ==
    /\ \E value \in 0..MaxUsers : verify_email(value)
    /\ resp'.op = "verify"
    /\ resp'.status = 200

\* C4: is_verified of a user never goes from true to false, it goes from
\* false to true only in a successful verifyEmail, and every new row starts
\* unverified; whatever operation takes the step.
C4_IsVerifiedMonotonic ==
    [][/\ \A u \in users, w \in users' :
            w.id = u.id =>
                /\ u.is_verified => w.is_verified
                /\ (~u.is_verified /\ w.is_verified) => VerifySucceeded
       /\ \A w \in users' :
            (\A u \in users : u.id # w.id) => ~w.is_verified]_vars

\* a verified user has been the target of a successful update
C4_Witness ==
    /\ resp.op = "update_user"
    /\ resp.status = 200
    /\ users # {}
    /\ \A u \in users : u.is_verified

(***************************************************************************)
(* Login                                                                   *)
(***************************************************************************)
\* what the caller sees of a response
Observable(r) ==
    [status |-> r.status, detail |-> r.detail,
     access_token |-> r.access_token, refresh_token |-> r.refresh_token]

\* C5: login of an existing user with the matching password and
\* is_verified = false is answered 400 "Email not verified", returns no
\* token and persists no RefreshToken row.
C5_UnverifiedLoginRejected ==
    [][(/\ resp'.op = "login"
        /\ resp'.case = "unverified"
        /\ \E email \in Emails, password \in Passwords :
              login(email, password))
           => /\ Observable(resp') =
                     Observable(HTTPException("login", 400,
                                              "Email not verified", ""))
              /\ rtokens' = rtokens]_vars

C5_Witness ==
    /\ resp.op = "login"
    /\ resp.case = "unverified"
    /\ \E u \in users : ~u.is_verified

\* C6: login answers an unregistered email and a registered email with a
\* wrong password with one and the same response (400 "Incorrect email or
\* password", no tokens), whether or not the user is verified.
C6_InvalidCredentialsUniform ==
    (resp.op = "login" /\ resp.case \in {"no_user", "bad_password"})
        => Observable(resp) =
               Observable(HTTPException("login", 400,
                                        "Incorrect email or password", ""))

\* a wrong password for a verified user, while the other email is unknown
C6_Witness ==
    /\ resp.op = "login"
    /\ resp.case = "bad_password"
    /\ \E u \in users : u.is_verified
    /\ \E email \in Emails : \A u \in users : u.email # email

\* C7 as stated: login of a verified user with the matching password is
\* answered 200 with an access token and a refresh token for that user and
\* token_type "bearer", and the store holds a RefreshToken row with that
\* refresh token, that user, revoked = false and
\* expires_at = now + refresh TTL.
C7_LoginIssuesAndPersists ==
    (resp.op = "login" /\ resp.case = "verified")
        => /\ resp.status = 200
           /\ resp.detail = "bearer"
           /\ resp.access_token.type = "access"
           /\ resp.refresh_token.type = "refresh"
           /\ resp.access_token.sub = resp.refresh_token.sub
           /\ \E r \in rtokens :
                /\ r.token = resp.refresh_token
                /\ r.user_id = resp.refresh_token.sub
                /\ r.revoked = FALSE
                /\ r.expires_at = resp.refresh_token.iat
                       + REFRESH_TOKEN_EXPIRE_DAYS * MINUTES_PER_DAY

(***************************************************************************)
(* Token types and keys                                                    *)
(***************************************************************************)
\* C8 as stated: the refresh token a login creates verifies under
\* JWT_REFRESH_SECRET_KEY, and the same claims signed with the access key
\* do not pass the refresh operation's verifier.
C8_RefreshKeySeparate ==
    [][\A email \in Emails, password \in Passwords :
          (LoginCase(email, password) = "verified" /\ login(email, password))
              => \A u \in users :
                    u.email = email =>
                        LET issued == create_refresh_token(u.id, now)
                        IN  /\ jwt_decode_ok(issued, JWT_REFRESH_SECRET_KEY,
                                             now)
                            /\ ~RefreshClaimsOK(
                                   [issued EXCEPT !.key = JWT_SECRET_KEY])]_vars

\* C9: the access-token verifier rejects every token whose type claim is
\* not "access" and returns no user for it; when signature and expiry are
\* valid the rejection is 401 "Invalid token type".
C9_RefreshTokenNotAccessCredential ==
    (resp.op = "get_current_user" /\ resp.token_type # "access")
        => /\ resp.status = 401
           /\ resp.user_id = 0
           /\ resp.case = "wrong_type" => resp.detail = "Invalid token type"

\* a well-signed, unexpired refresh token has been presented and refused
C9_Witness ==
    /\ resp.op = "get_current_user"
    /\ resp.token_type = "refresh"
    /\ resp.case = "wrong_type"
    /\ resp.status = 401
    /\ \E u \in users : u.is_verified

\* C10: refresh refuses every token whose type claim is not "refresh" in
\* its verification step (400 "Invalid refresh token") and mints no access
\* token for it.
C10_AccessTokenNotRefreshCredential ==
    (resp.op = "refresh" /\ resp.token_type # "refresh")
        => /\ resp.status = 400
           /\ resp.detail = "Invalid refresh token"
           /\ resp.access_token = NoToken

\* a well-signed, unexpired access token has been presented and refused
C10_Witness ==
    /\ resp.op = "refresh"
    /\ resp.token_type = "access"
    /\ resp.case = "wrong_type"
    /\ resp.status = 400
    /\ \E u \in users : u.is_verified

(***************************************************************************)
(* Access-token lifetime                                                   *)
(***************************************************************************)
\* C11 as stated: an access token issued at t with lifetime d is accepted by
\* the access-token verifier (no scope demanded) at every time before t + d
\* and rejected at every time after t + d.
C11_AccessTokenValidForTTL ==
    [][\A token \in IssuedTokens :
          (/\ resp'.op = "get_current_user"
           /\ token.type = "access"
           /\ get_current_user(token, {}))
              => /\ now < token.exp => resp'.status = 200
                 /\ now > token.exp => resp'.status = 401]_vars

(***************************************************************************)
(* Refresh against stored rows.  No request handler writes a RefreshToken  *)
(* row that the table accepts (create_tokens leaves created_at unset), so  *)
(* the rows are drawn as the table can hold them: written with created_at  *)
(* set, as the task tests write them, for users that exist.                *)
(***************************************************************************)
\* number of RefreshToken rows in the table at the start
MaxRows == 2

\* two verified users whose verification tokens were consumed at signup time
SeedUsers ==
    {[id |-> i, email |-> IF i = 1 THEN "a@x.com" ELSE "b@x.com",
      hashed_password |-> get_password_hash("GoodPass123!"),
      is_verified |-> TRUE, role |-> "USER", created_at |-> 0] : i \in 1..2}

SeedVTokens ==
    {[id |-> i, user_id |-> i, token |-> i,
      token_type |-> "email_verification",
      expires_at |-> VERIFICATION_TOKEN_EXPIRE_MINUTES,
      is_used |-> FALSE, revoked |-> TRUE] : i \in 1..2}

\* the refresh token of user 1 issued at time 0
SeedToken == create_refresh_token(1, 0)

\* stored values: the issued token, or a string that is not a JWT; any
\* existing owner; live for the token's lifetime or for 15 minutes
RowShapes ==
    [user_id : 1..2, token : {SeedToken, Garbage}, created_at : {0},
     expires_at : {15, REFRESH_TOKEN_EXPIRE_DAYS * MINUTES_PER_DAY},
     revoked : BOOLEAN]

InitRefresh ==
    /\ users = SeedUsers
    /\ vtokens = SeedVTokens
    /\ \E n \in 0..MaxRows : \E f \in [1..n -> RowShapes] :
          /\ rtokens = {[id |-> i, user_id |-> f[i].user_id,
                         token |-> f[i].token, created_at |-> f[i].created_at,
                         expires_at |-> f[i].expires_at,
                         revoked |-> f[i].revoked] : i \in 1..n}
          /\ nextRTokenId = n + 1
    /\ nextUserId = 3
    /\ nextVTokenId = 3
    /\ now = 0
    /\ ticks = 0
    /\ pc = [p \in Procs |-> Idle]
    /\ outbox = {1, 2}
    /\ signedUp = {"a@x.com", "b@x.com"}
    /\ resp = Response("init", 0, "", NoToken, NoToken, "")

\* values a caller presents to refresh: the stored ones, the issued token,
\* the same claims under the other key, a fresh access token, a non-token
RefreshInputs ==
    {r.token : r \in rtokens}
    \cup {SeedToken, [SeedToken EXCEPT !.key = JWT_REFRESH_SECRET_KEY],
          create_access_token(1, now), Garbage}

\* AuthService.refresh_access_token: the access token, or None
refresh_access_token(token) ==
    LET found == {r \in rtokens : /\ r.token = token
                                  /\ r.revoked = FALSE
                                  /\ r.expires_at > now}
        case == RefreshCase(token)
        answer ==
            IF found = {}
            THEN Response("refresh_access_token", 0, "None", NoToken, NoToken,
                          case)
            ELSE LET token_record == CHOOSE r \in found : TRUE
                 IN  Response("refresh_access_token", 0, "access_token",
                              create_access_token(token_record.user_id, now),
                              NoToken, case)
    IN  /\ resp' = [answer EXCEPT !.token_type = token.type]
        /\ UNCHANGED <<store, now, ticks, pc, outbox, signedUp>>

NextRefresh ==
    \/ \E d \in TickSteps : Tick(d)
    \/ \E token \in RefreshInputs : refresh_token(token)
    \/ \E token \in RefreshInputs : refresh_access_token(token)
    \/ cleanup_expired_tokens

SpecRefresh == InitRefresh /\ [][NextRefresh]_vars

\* C12: a successful refresh leaves the store as it was, and refresh
\* succeeds whenever the presented token verifies as a refresh token and a
\* row with its value is unrevoked and unexpired; so one token serves any
\* number of successive refreshes until it expires or is revoked.
C12_RefreshLeavesStore ==
    [][\A token \in RefreshInputs :
          (resp'.op = "refresh" /\ refresh_token(token))
              => /\ resp'.status = 200 => store' = store
                 /\ RefreshCase(token) = "live" => resp'.status = 200]_vars

\* a refresh has succeeded and the row it used is still live
C12_Witness ==
    /\ resp.op = "refresh"
    /\ resp.status = 200
    /\ \E r \in rtokens : /\ r.token = resp.refresh_token
                          /\ ~r.revoked
                          /\ r.expires_at > now

\* the value is stored and every row that holds it is revoked
Revoked(token) ==
    /\ \E r \in rtokens : r.token = token
    /\ \A r \in rtokens : r.token = token => r.revoked

\* C13: a refresh token whose rows are revoked is refused by refresh
\* (handler: 400; service: None) at every time, before the rows' expires_at
\* as after it, and no access token is minted from it.
C13_RevokedNeverRefreshes ==
    [][\A token \in RefreshInputs :
          (/\ Revoked(token)
           /\ \/ resp'.op = "refresh" /\ refresh_token(token)
              \/ resp'.op = "refresh_access_token"
                    /\ refresh_access_token(token))
              => /\ resp'.access_token = NoToken
                 /\ resp'.op = "refresh" => resp'.status = 400]_vars

\* the issued token, revoked in the store but not yet expired there, has
\* been presented to the handler and refused
C13_Witness ==
    /\ resp.op = "refresh"
    /\ resp.case = "revoked_row"
    /\ resp.status = 400
    /\ Revoked(SeedToken)
    /\ \E r \in rtokens : r.token = SeedToken /\ r.expires_at > now

\* some row holds the value, unrevoked and unexpired
LiveRow(token) ==
    \E r \in rtokens : r.token = token /\ ~r.revoked /\ r.expires_at > now

\* C14 as stated: on every code path that implements refresh (the handler
\* and the service), an access token is minted only when the presented
\* value verifies as a refresh token (signature, expiry, type) and a row
\* with exactly that value is unrevoked and unexpired.
C14_RefreshNeedsClaimsAndRow ==
    [][\A token \in RefreshInputs :
          (/\ resp'.access_token # NoToken
           /\ \/ resp'.op = "refresh" /\ refresh_token(token)
              \/ resp'.op = "refresh_access_token"
                    /\ refresh_access_token(token))
              => /\ verify_token_ok(token, now)
                 /\ token.type = "refresh"
                 /\ LiveRow(token)]_vars

\* C15: a successful refresh returns an access token issued now whose sub
\* is the user_id of a live stored row holding the presented value, and
\* returns the presented refresh token itself (no rotation), token_type
\* "bearer".
C15_RefreshBindsRowOwner ==
    [][\A token \in RefreshInputs :
          (/\ resp'.op = "refresh"
           /\ resp'.status = 200
           /\ refresh_token(token))
              => /\ \E r \in rtokens :
                       /\ r.token = token /\ ~r.revoked /\ r.expires_at > now
                       /\ resp'.access_token =
                              create_access_token(r.user_id, now)
                 /\ resp'.refresh_token = token
                 /\ resp'.detail = "bearer"]_vars

\* a refresh has succeeded on a row whose owner is not the sub of the token
C15_Witness ==
    /\ resp.op = "refresh"
    /\ resp.status = 200
    /\ resp.access_token.type = "access"
    /\ resp.access_token.sub # resp.refresh_token.sub
    /\ \E r \in rtokens : /\ r.token = resp.refresh_token
                          /\ r.user_id = resp.access_token.sub

(***************************************************************************)
(* Email verification                                                      *)
(***************************************************************************)
InvalidOrExpiredToken ==
    HTTPException("verify", 400, "Invalid or expired verification token", "")

\* C16: once a verification token has been consumed, every later
\* verifyEmail with its value fails and writes nothing, and the answer is
\* the one given for a value no row holds: 400 "Invalid or expired
\* verification token".
C16_ConsumedTokenFailsUniformly ==
    [][\A value \in 0..MaxUsers :
          (/\ resp'.op = "verify"
           /\ verify_email(value)
           /\ \/ \E t \in vtokens : t.token = value /\ t.revoked
              \/ \A t \in vtokens : t.token # value)
              => /\ Observable(resp') = Observable(InvalidOrExpiredToken)
                 /\ store' = store]_vars

\* a consumed token, not yet expired, has been presented again and refused
C16_Witness ==
    /\ resp.op = "verify"
    /\ resp.case = "dead_token"
    /\ vtokens # {}
    /\ \A t \in vtokens : t.revoked /\ t.expires_at > now
    /\ \A u \in users : u.is_verified

\* some row holds the value with kind email_verification, unrevoked and
\* unexpired
LiveVToken(value) ==
    \E t \in vtokens : /\ t.token = value
                        /\ t.token_type = "email_verification"
                        /\ ~t.revoked
                        /\ t.expires_at > now

\* C18: verifyEmail succeeds only for a value held by a stored token of
\* kind email_verification that is unrevoked and unexpired; for any other
\* value it answers 400 and changes no state.
C18_VerifyNeedsLiveToken ==
    [][\A value \in 0..MaxUsers :
          (resp'.op = "verify" /\ verify_email(value))
              => /\ resp'.status = 200 => LiveVToken(value)
                 /\ ~LiveVToken(value)
                        => /\ resp'.status = 400
                           /\ store' = store]_vars

\* an expired, never consumed token has been presented and refused
C18_Witness ==
    /\ resp.op = "verify"
    /\ resp.case = "dead_token"
    /\ resp.status = 400
    /\ vtokens # {}
    /\ \A t \in vtokens : ~t.revoked /\ ~(t.expires_at > now)
    /\ \A u \in users : ~u.is_verified

(***************************************************************************)
(* POST /auth/verify under concurrency.  The handler awaits the store      *)
(* after its reads (token lookup, user get) and writes both rows in the    *)
(* one commit that ends it; the two reads are taken as one step.           *)
(***************************************************************************)
VerifyLookup(p, value) ==
    LET found == {t \in vtokens : /\ t.token = value
                                  /\ t.token_type = "email_verification"
                                  /\ t.revoked = FALSE
                                  /\ t.expires_at > now}
    IN  /\ pc[p].state = "idle"
        /\ IF found = {}
           THEN /\ resp' = HTTPException("verify", 400,
                             "Invalid or expired verification token",
                             IF \E t \in vtokens : t.token = value
                             THEN "dead_token" ELSE "no_token")
                /\ UNCHANGED pc
           ELSE LET token == CHOOSE t \in found : TRUE
                IN  IF \A u \in users : u.id # token.user_id
                    THEN /\ resp' = HTTPException("verify", 404,
                                      "User not found", "no_user")
                         /\ UNCHANGED pc
                    ELSE /\ pc' = [pc EXCEPT ![p] =
                                     [state |-> "verifying",
                                      token_id |-> token.id,
                                      user_id |-> token.user_id]]
                         /\ UNCHANGED resp
        /\ UNCHANGED <<store, now, ticks, outbox, signedUp>>

\* the commit flushes only the user flag
VerifyCommit_UserOnly(p) ==
    /\ pc[p].state = "verifying"
    /\ pc' = [pc EXCEPT ![p] = Idle]
    /\ users' = {IF u.id = pc[p].user_id
                 THEN [u EXCEPT !.is_verified = TRUE] ELSE u : u \in users}
    /\ resp' = Response("verify", 200, "Email verified successfully",
                        NoToken, NoToken, "live_token")
    /\ UNCHANGED <<vtokens, rtokens, nextUserId, nextVTokenId, nextRTokenId,
                   now, ticks, outbox, signedUp>>

\* an UPDATE that matches no row passes silently
VerifyCommit_NoStaleCheck(p) ==
    LET token == {t \in vtokens : t.id = pc[p].token_id}
        owner == {u \in users : u.id = pc[p].user_id}
    IN  /\ pc[p].state = "verifying"
        /\ pc' = [pc EXCEPT ![p] = Idle]
        /\ users' = {IF u \in owner THEN [u EXCEPT !.is_verified = TRUE]
                     ELSE u : u \in users}
        /\ vtokens' = {IF t \in token THEN [t EXCEPT !.revoked = TRUE]
                       ELSE t : t \in vtokens}
        /\ resp' = Response("verify", 200, "Email verified successfully",
                            NoToken, NoToken,
                            IF \E t \in token : t.revoked
                            THEN "consumed_token" ELSE "live_token")
        /\ UNCHANGED <<rtokens, nextUserId, nextVTokenId, nextRTokenId, now,
                       ticks, outbox, signedUp>>

\* the commit flips the revoked flag of the token row instead of setting it
VerifyCommit_TogglesRevoked(p) ==
    LET token == {t \in vtokens : t.id = pc[p].token_id}
        owner == {u \in users : u.id = pc[p].user_id}
    IN  /\ pc[p].state = "verifying"
        /\ pc' = [pc EXCEPT ![p] = Idle]
        /\ IF token = {} \/ owner = {}
           THEN /\ resp' = global_exception_handler("verify", "stale")
                /\ UNCHANGED store
           ELSE /\ users' = {IF u \in owner
                             THEN [u EXCEPT !.is_verified = TRUE]
                             ELSE u : u \in users}
                /\ vtokens' = {IF t \in token
                               THEN [t EXCEPT !.revoked = ~t.revoked]
                               ELSE t : t \in vtokens}
                /\ resp' = Response("verify", 200,
                             "Email verified successfully", NoToken, NoToken,
                             IF \E t \in token : t.revoked
                             THEN "consumed_token" ELSE "live_token")
                /\ UNCHANGED <<rtokens, nextUserId, nextVTokenId,
                               nextRTokenId>>
        /\ UNCHANGED <<now, ticks, outbox, signedUp>>

\* user.is_verified = True; token.revoked = True; commit.  An UPDATE that
\* matches no row (the row was deleted since it was read) fails the flush.
VerifyCommit(p) ==
    LET token == {t \in vtokens : t.id = pc[p].token_id}
        owner == {u \in users : u.id = pc[p].user_id}
    IN  /\ pc[p].state = "verifying"
        /\ pc' = [pc EXCEPT ![p] = Idle]
        /\ IF token = {} \/ owner = {}
           THEN \* StaleDataError: rolled back, not an HTTPException
                /\ resp' = global_exception_handler("verify", "stale")
                /\ UNCHANGED store
           ELSE /\ users' = {IF u \in owner
                             THEN [u EXCEPT !.is_verified = TRUE]
                             ELSE u : u \in users}
                /\ vtokens' = {IF t \in token
                               THEN [t EXCEPT !.revoked = TRUE]
                               ELSE t : t \in vtokens}
                /\ resp' = Response("verify", 200,
                             "Email verified successfully", NoToken, NoToken,
                             IF \E t \in token : t.revoked
                             THEN "consumed_token" ELSE "live_token")
                /\ UNCHANGED <<rtokens, nextUserId, nextVTokenId,
                               nextRTokenId>>
        /\ UNCHANGED <<now, ticks, outbox, signedUp>>

\* concurrent verification requests against signup and the retention jobs
NextVerify ==
    \/ \E d \in TickSteps : Tick(d)
    \/ Signup(SeqProcs)
    \/ \E p \in Procs, value \in 0..MaxUsers : VerifyLookup(p, value)
    \/ \E p \in Procs : VerifyCommit(p)
    \/ cleanup_expired_tokens
    \/ delete_unverified_users(DAYS_OLD)

SpecVerify == Init /\ [][NextVerify]_vars

\* C17 as stated: over all interleavings of concurrent verifyEmail requests
\* with one token, at most one reports success; that is, no request reports
\* success on a token another request has already consumed.
C17_AtMostOneSuccess ==
    (resp.op = "verify" /\ resp.status = 200) => resp.case = "live_token"

\* C19: in every committed state a stored verification token is revoked
\* exactly when its owner is verified: verifyEmail writes the two in one
\* commit, whatever requests interleave with it.
C19_VerifyAtomic ==
    \A t \in vtokens, u \in users :
        t.user_id = u.id => (t.revoked <=> u.is_verified)

\* two overlapping requests for one token have both committed
C19_Witness ==
    /\ resp.op = "verify"
    /\ resp.status = 200
    /\ resp.case = "consumed_token"
    /\ \E t \in vtokens, u \in users :
          t.user_id = u.id /\ t.revoked /\ u.is_verified

(***************************************************************************)
(* Signup transaction                                                      *)
(***************************************************************************)
\* C20: a successful signup commits, in one step, exactly one new User
\* (unverified, the requested email) and exactly one VerificationToken
\* (kind email_verification, owned by that user, expiring 15 minutes from
\* now, unrevoked); a signup that fails commits neither; and no committed
\* state holds a verification token without its user.
C20_SignupAtomic ==
    [][/\ \A p \in Procs :
            (resp'.op = "signup" /\ SignupCommit(p))
                => IF resp'.status = 201
                   THEN \E u \in users' \ users, t \in vtokens' \ vtokens :
                          /\ users' = users \cup {u}
                          /\ vtokens' = vtokens \cup {t}
                          /\ u.email = pc[p].email
                          /\ ~u.is_verified
                          /\ t.user_id = u.id
                          /\ t.token_type = "email_verification"
                          /\ t.expires_at = now + 15
                          /\ ~t.revoked
                   ELSE users' = users /\ vtokens' = vtokens
       /\ \A p \in Procs, email \in Emails, password \in SignupPasswords,
             role \in UserRole :
            SignupCheck(p, email, password, role)
                => users' = users /\ vtokens' = vtokens
       /\ \A t \in vtokens' : \E u \in users' : u.id = t.user_id]_vars

\* a signup has committed while another request was in flight, and a signup
\* has failed at its insert
C20_Witness ==
    /\ resp.op = "signup"
    /\ resp.status = 500
    /\ \E u \in users : ~u.is_verified
          /\ \E t \in vtokens : t.user_id = u.id /\ ~t.revoked

(***************************************************************************)
(* The purge of unverified users under concurrency.  A run of the task     *)
(* awaits the store at the SELECT of each batch and at its commit; its     *)
(* position, cutoff, count, locked batch and retry number are kept in pc.  *)
(***************************************************************************)
\* max_retries of the task decorator
MAX_RETRIES == 3

\* clock steps: past the expiry of a verification token but short of the
\* cutoff age, and past the cutoff age
PurgeTickSteps == {16, DAYS_OLD * MINUTES_PER_DAY + 1}

\* rows locked FOR UPDATE by a run that has selected them and not committed
RowLocked(user_id) ==
    \E q \in Procs : /\ pc[q].state = "purge_commit"
                     /\ user_id \in pc[q].batch

\* countdown=60 * 5: the delay, in seconds, self.retry is given by the job,
\* whatever the number of retries so far
RetryCountdown(retries) == 60 * 5

\* countdown: the delay that preceded (or will precede) the execution with
\* this retry number; 0 for the first execution of an invocation
PurgeRun(state, cutoff_time, deleted_count, batch, retries) ==
    [state |-> state, cutoff_time |-> cutoff_time,
     deleted_count |-> deleted_count, batch |-> batch, retries |-> retries,
     countdown |-> IF retries = 0 THEN 0 ELSE RetryCountdown(retries - 1)]

\* the worker starts an execution: a scheduled invocation (retries = 0) or
\* the re-execution a retry asked for; cutoff_time is taken once, here
PurgeStart(p, days_old) ==
    /\ pc[p].state \in {"idle", "purge_retry"}
    /\ pc' = [pc EXCEPT ![p] =
                PurgeRun("purge_select", now - days_old * MINUTES_PER_DAY, 0,
                         {}, IF pc[p].state = "idle" THEN 0
                             ELSE pc[p].retries)]
    /\ UNCHANGED <<store, now, ticks, outbox, signedUp, resp>>

\* the SELECT takes no row lock: rows held by another run are read too
PurgeSelect_NoSkipLocked(p) ==
    LET rows == {u \in users : /\ u.is_verified = FALSE
                               /\ u.created_at < pc[p].cutoff_time}
        batch == Batch(rows)
    IN  /\ pc[p].state = "purge_select"
        /\ IF batch = {}
           THEN /\ pc' = [pc EXCEPT ![p] = Idle]
                /\ resp' = [Response("delete_unverified_users", 0, "success",
                                     NoToken, NoToken, "")
                              EXCEPT !.deleted_count = pc[p].deleted_count]
           ELSE /\ pc' = [pc EXCEPT ![p] =
                            [pc[p] EXCEPT !.state = "purge_commit",
                                          !.batch = {u.id : u \in batch}]]
                /\ UNCHANGED resp
        /\ UNCHANGED <<store, now, ticks, outbox, signedUp>>

\* the SELECT ignores the cutoff
PurgeSelect_NoCutoff(p) ==
    LET rows == {u \in users : /\ u.is_verified = FALSE
                               /\ ~RowLocked(u.id)}
        batch == Batch(rows)
    IN  /\ pc[p].state = "purge_select"
        /\ IF batch = {}
           THEN /\ pc' = [pc EXCEPT ![p] = Idle]
                /\ resp' = [Response("delete_unverified_users", 0, "success",
                                     NoToken, NoToken, "")
                              EXCEPT !.deleted_count = pc[p].deleted_count]
           ELSE /\ pc' = [pc EXCEPT ![p] =
                            [pc[p] EXCEPT !.state = "purge_commit",
                                          !.batch = {u.id : u \in batch}]]
                /\ UNCHANGED resp
        /\ UNCHANGED <<store, now, ticks, outbox, signedUp>>

\* an empty batch does not end the loop
PurgeSelect_NoBreak(p) ==
    LET rows == {u \in users : /\ u.is_verified = FALSE
                               /\ u.created_at < pc[p].cutoff_time
                               /\ ~RowLocked(u.id)}
        batch == Batch(rows)
    IN  /\ pc[p].state = "purge_select"
        /\ IF batch = {}
           THEN UNCHANGED <<pc, resp>>
           ELSE /\ pc' = [pc EXCEPT ![p] =
                            [pc[p] EXCEPT !.state = "purge_commit",
                                          !.batch = {u.id : u \in batch}]]
                /\ UNCHANGED resp
        /\ UNCHANGED <<store, now, ticks, outbox, signedUp>>

\* SELECT ... WHERE is_verified = false AND created_at < cutoff_time
\* LIMIT batch_size FOR UPDATE SKIP LOCKED; an empty batch ends the run
PurgeSelect(p) ==
    LET rows == {u \in users : /\ u.is_verified = FALSE
                               /\ u.created_at < pc[p].cutoff_time
                               /\ ~RowLocked(u.id)}
        batch == Batch(rows)
    IN  /\ pc[p].state = "purge_select"
        /\ IF batch = {}
           THEN \* break; return {"status": "success", "deleted_count": ...}
                /\ pc' = [pc EXCEPT ![p] = Idle]
                /\ resp' = [Response("delete_unverified_users", 0, "success",
                                     NoToken, NoToken, "")
                              EXCEPT !.deleted_count = pc[p].deleted_count]
           ELSE /\ pc' = [pc EXCEPT ![p] =
                            [pc[p] EXCEPT !.state = "purge_commit",
                                          !.batch = {u.id : u \in batch}]]
                /\ UNCHANGED resp
        /\ UNCHANGED <<store, now, ticks, outbox, signedUp>>

\* self.retry asks for a re-execution whatever the retry number
PurgeCommit_RetryUnbounded(p) ==
    LET rows == {u \in users : u.id \in pc[p].batch}
    IN  /\ pc[p].state = "purge_commit"
        /\ IF \E u \in rows : UserReferenced(u)
           THEN /\ pc' = [pc EXCEPT ![p] =
                            PurgeRun("purge_retry", pc[p].cutoff_time, 0, {},
                                     pc[p].retries + 1)]
                /\ resp' = Response("delete_unverified_users", 0, "retry",
                                    NoToken, NoToken, "fk_violation")
                /\ UNCHANGED users
           ELSE /\ users' = users \ rows
                /\ pc' = [pc EXCEPT ![p] =
                            [pc[p] EXCEPT !.state = "purge_select",
                                          !.batch = {},
                                          !.deleted_count =
                                              @ + Cardinality(pc[p].batch)]]
                /\ UNCHANGED resp
        /\ UNCHANGED <<vtokens, rtokens, nextUserId, nextVTokenId,
                       nextRTokenId, now, ticks, outbox, signedUp>>

\* deleted_count is incremented once per batch, not once per row
PurgeCommit_CountsBatches(p) ==
    LET rows == {u \in users : u.id \in pc[p].batch}
    IN  /\ pc[p].state = "purge_commit"
        /\ IF \E u \in rows : UserReferenced(u)
           THEN IF pc[p].retries < MAX_RETRIES
                THEN /\ pc' = [pc EXCEPT ![p] =
                                 PurgeRun("purge_retry", pc[p].cutoff_time, 0,
                                          {}, pc[p].retries + 1)]
                     /\ resp' = Response("delete_unverified_users", 0,
                                  "retry", NoToken, NoToken, "fk_violation")
                     /\ UNCHANGED users
                ELSE /\ pc' = [pc EXCEPT ![p] = Idle]
                     /\ resp' = Response("delete_unverified_users", 0,
                                  "failure", NoToken, NoToken, "fk_violation")
                     /\ UNCHANGED users
           ELSE /\ users' = users \ rows
                /\ pc' = [pc EXCEPT ![p] =
                            [pc[p] EXCEPT !.state = "purge_select",
                                          !.batch = {},
                                          !.deleted_count = @ + 1]]
                /\ UNCHANGED resp
        /\ UNCHANGED <<vtokens, rtokens, nextUserId, nextVTokenId,
                       nextRTokenId, now, ticks, outbox, signedUp>>

\* session.delete(user) and deleted_count += 1 for each row read, then the
\* commit.  A DELETE of a user some token row references fails the flush:
\* the batch rolls back and the except clause raises self.retry, which
\* schedules a re-execution while retries < max_retries and otherwise
\* raises the error (the task ends in state FAILURE).  A DELETE of a row
\* that is gone matches nothing and is counted all the same.
PurgeCommit(p) ==
    LET rows == {u \in users : u.id \in pc[p].batch}
    IN  /\ pc[p].state = "purge_commit"
        /\ IF \E u \in rows : UserReferenced(u)
           THEN IF pc[p].retries < MAX_RETRIES
                THEN /\ pc' = [pc EXCEPT ![p] =
                                 PurgeRun("purge_retry", pc[p].cutoff_time, 0,
                                          {}, pc[p].retries + 1)]
                     /\ resp' = Response("delete_unverified_users", 0,
                                  "retry", NoToken, NoToken, "fk_violation")
                     /\ UNCHANGED users
                ELSE /\ pc' = [pc EXCEPT ![p] = Idle]
                     /\ resp' = Response("delete_unverified_users", 0,
                                  "failure", NoToken, NoToken, "fk_violation")
                     /\ UNCHANGED users
           ELSE /\ users' = users \ rows
                /\ pc' = [pc EXCEPT ![p] =
                            [pc[p] EXCEPT !.state = "purge_select",
                                          !.batch = {},
                                          !.deleted_count =
                                              @ + Cardinality(pc[p].batch)]]
                /\ UNCHANGED resp
        /\ UNCHANGED <<vtokens, rtokens, nextUserId, nextVTokenId,
                       nextRTokenId, now, ticks, outbox, signedUp>>

\* the UPDATE of a user row waits while a purge run holds the row's lock
VerifyCommitUnlocked(p) ==
    /\ pc[p].state = "verifying"
    /\ ~RowLocked(pc[p].user_id)
    /\ VerifyCommit(p)

\* purge runs against each other, verification, signup and token cleanup
NextPurge ==
    \/ \E d \in PurgeTickSteps : Tick(d)
    \/ \E p \in SeqProcs, email \in Emails, password \in SignupPasswords :
          SignupCheck(p, email, password, "USER")
    \/ \E p \in SeqProcs : SignupCommit(p)
    \/ \E p \in SeqProcs, value \in 0..MaxUsers : VerifyLookup(p, value)
    \/ \E p \in SeqProcs : VerifyCommitUnlocked(p)
    \/ cleanup_expired_tokens
    \/ \E p \in Procs : PurgeStart(p, DAYS_OLD)
    \/ \E p \in Procs : PurgeSelect(p)
    \/ \E p \in Procs : PurgeCommit(p)

SpecPurge == Init /\ [][NextPurge]_vars

(***************************************************************************)
(* Retention: the purge of unverified users                                *)
(***************************************************************************)
\* C21: a purge run removes a user only if the user is unverified and was
\* created before the run's cutoff, which is the start of the run minus
\* days_old days; verified users and users created at or after the cutoff
\* are never removed by it.
C21_PurgeOnlyOldUnverified ==
    [][\A p \in Procs :
         /\ PurgeStart(p, DAYS_OLD)
              => pc'[p].cutoff_time = now - DAYS_OLD * MINUTES_PER_DAY
         /\ (pc[p].state = "purge_commit" /\ PurgeCommit(p))
              => /\ users' \subseteq users
                 /\ \A u \in users \ users' :
                       /\ ~u.is_verified
                       /\ u.created_at < pc[p].cutoff_time
                 /\ \A u \in users :
                       (u.is_verified \/ u.created_at >= pc[p].cutoff_time)
                          => u \in users']_vars

\* a run has removed a user and left another, verified or too recent
C21_Witness ==
    \E p \in Procs :
        /\ pc[p].state = "purge_select"
        /\ pc[p].deleted_count >= 1
        /\ \E u \in users :
              u.is_verified \/ u.created_at >= pc[p].cutoff_time

\* C22: when two purge runs overlap, no user row is held, deleted or counted
\* by both: the batches the two runs hold are disjoint, every batch commit
\* removes exactly the rows of its batch, all of them still stored, and
\* adds their number to its run's count, and a run returns that count; so
\* the two returned counts add up to the number of rows removed.
C22_EachRowDeletedOnce ==
    [][\A p \in Procs :
         /\ (pc[p].state = "purge_commit" /\ PurgeCommit(p)
               /\ pc'[p].state = "purge_select")
              => /\ \A id \in pc[p].batch : \E u \in users : u.id = id
                 /\ \A q \in Procs \ {p} :
                       pc[q].state = "purge_commit"
                          => pc[q].batch \cap pc[p].batch = {}
                 /\ Cardinality(users) - Cardinality(users')
                       = pc'[p].deleted_count - pc[p].deleted_count
         /\ (pc[p].state = "purge_select" /\ PurgeSelect(p)
               /\ pc'[p].state = "idle")
              => resp'.deleted_count = pc[p].deleted_count]_vars

\* one run holds a batch while the other, whose cutoff the held row also
\* meets, is about to select
C22_Witness ==
    \E p \in Procs, q \in Procs :
        /\ p # q
        /\ pc[p].state = "purge_commit"
        /\ pc[q].state = "purge_select"
        /\ \E u \in users : /\ u.id \in pc[p].batch
                            /\ ~u.is_verified
                            /\ u.created_at < pc[q].cutoff_time
                            /\ ~UserReferenced(u)

C24_CleanupDeletesExpired ==
    [][(resp'.op = "cleanup_expired_tokens" /\ cleanup_expired_tokens)
         => /\ rtokens' = {r \in rtokens : r.expires_at >= now}
            /\ vtokens' = {v \in vtokens : v.expires_at >= now}
            /\ users' = users
            /\ resp'.detail = "success"
            /\ resp'.deleted_refresh_tokens
                  = Cardinality(rtokens) - Cardinality(rtokens')
            /\ resp'.deleted_verification_tokens
                  = Cardinality(vtokens) - Cardinality(vtokens')]_vars

\* a run has removed rows of both kinds and left a live, unrevoked refresh
\* token row in place
C24_Witness ==
    /\ resp.op = "cleanup_expired_tokens"
    /\ resp.deleted_refresh_tokens >= 1
    /\ resp.deleted_verification_tokens >= 1
    /\ \E r \in rtokens : r.expires_at >= now /\ ~r.revoked

(***************************************************************************)
(* Retention: errors and retries                                           *)
(***************************************************************************)
\* C25 as stated: when the store raises during a retention job, the job
\* call returns a result whose status is 'error'.
C25_StoreErrorReturnsErrorStatus ==
    (resp.op \in {"delete_unverified_users", "cleanup_expired_tokens"}
       /\ resp.case = "fk_violation")
      => resp.detail = "error"

\* C26: the retry of a purge invocation is bounded.  An execution is the
\* first of its invocation (retries = 0) or a re-execution with retries
\* counting the failures before it, and retries never exceeds max_retries,
\* so an invocation is executed at most 1 + max_retries = 4 times; the
\* failure of the execution with retries = max_retries ends the invocation
\* with a failure and no re-execution pending; an earlier failure leaves
\* exactly one re-execution pending; and an execution that returns leaves
\* none.
C26_RetryBounded ==
    [][\A p \in Procs :
         /\ pc'[p].state \in {"purge_select", "purge_commit", "purge_retry"}
              => pc'[p].retries <= MAX_RETRIES
         /\ PurgeStart(p, DAYS_OLD)
              => pc'[p].retries
                    = IF pc[p].state = "purge_retry" THEN pc[p].retries ELSE 0
         /\ (pc[p].state = "purge_commit" /\ PurgeCommit(p)
               /\ pc'[p].state # "purge_select")
              => IF pc[p].retries = MAX_RETRIES
                 THEN pc'[p] = Idle /\ resp'.detail = "failure"
                 ELSE /\ pc'[p].state = "purge_retry"
                      /\ pc'[p].retries = pc[p].retries + 1
                      /\ resp'.detail = "retry"
         /\ (pc[p].state = "purge_select" /\ PurgeSelect(p)
               /\ resp'.detail = "success" /\ resp' # resp)
              => pc'[p] = Idle]_vars

\* an invocation has failed for the fourth time and is given up
C26_Witness ==
    /\ resp.op = "delete_unverified_users"
    /\ resp.detail = "failure"
    /\ \A p \in Procs : pc[p].state = "idle"
    /\ \E u \in users : ~u.is_verified /\ UserReferenced(u)

(***************************************************************************)
(* Referential integrity                                                   *)
(***************************************************************************)
\* C27 as stated: the deletion of a user cascades and succeeds: a purge run
\* removes every user it selects together with the token rows that user
\* owns, and in every state each token row's user_id names a stored user.
C27_UserDeletionCascades ==
    [][(resp'.op = "delete_unverified_users"
          /\ delete_unverified_users(DAYS_OLD))
         => /\ \A u \in users :
                  (~u.is_verified
                     /\ u.created_at < now - DAYS_OLD * MINUTES_PER_DAY)
                    => /\ u \notin users'
                       /\ \A v \in vtokens' : v.user_id # u.id
                       /\ \A r \in rtokens' : r.user_id # u.id
            /\ \A v \in vtokens' : \E u \in users' : u.id = v.user_id
            /\ \A r \in rtokens' : \E u \in users' : u.id = r.user_id]_vars

C30_PurgeAndVerifyIsolated ==
    [][\A p \in Procs :
         /\ (pc[p].state = "purge_commit" /\ PurgeCommit(p))
              => \A u \in users \ users' : ~u.is_verified
         /\ (pc[p].state = "verifying" /\ resp'.op = "verify"
               /\ resp'.status = 200 /\ VerifyCommit(p))
              => /\ \E u \in users : u.id = pc[p].user_id
                 /\ \E u \in users' :
                       u.id = pc[p].user_id /\ u.is_verified]_vars

\* a verification that had read its token and user failed at its commit
\* after a purge run, still under way, removed the user
C30_Witness ==
    /\ resp.op = "verify"
    /\ resp.status = 500
    /\ resp.case = "stale"
    /\ users = {}
    /\ \E q \in Procs : /\ pc[q].state = "purge_select"
                        /\ pc[q].deleted_count >= 1

(***************************************************************************)
(* Refresh: what a failure tells the caller                                *)
(***************************************************************************)
\* C31 as stated: every failure of refresh yields the same error outcome
\* whatever its cause: any two failing refresh requests, one after the
\* other, are answered with the same status and detail.
C31_RefreshFailuresUniform ==
    [][(/\ resp.op = "refresh" /\ resp.status # 200
        /\ resp'.op = "refresh" /\ resp'.status # 200)
         => Observable(resp') = Observable(resp)]_vars

(***************************************************************************)
(* Token flags                                                             *)
(***************************************************************************)
\* C32: the revoked flag of a token row is monotonic: a RefreshToken or
\* VerificationToken row that is revoked is, in the next state, either gone
\* or still revoked, whatever operation made the step.
C32_RevokedMonotonic ==
    [][/\ \A t \in vtokens, t2 \in vtokens' :
             (t.revoked /\ t2.id = t.id) => t2.revoked
       /\ \A r \in rtokens, r2 \in rtokens' :
             (r.revoked /\ r2.id = r.id) => r2.revoked]_vars

\* a revoked verification token has been written again by an overlapping
\* request and is still revoked
C32_Witness ==
    /\ resp.op = "verify"
    /\ resp.case = "consumed_token"
    /\ \A p \in Procs : pc[p].state = "idle"
    /\ \E t \in vtokens : t.revoked

(***************************************************************************)
(* Failed requests                                                         *)
(***************************************************************************)
\* C33: a failed request leaves the store unchanged and nothing pending: a
\* login, refresh or verifyEmail that is not answered 200 adds, removes and
\* modifies no User, RefreshToken or VerificationToken row, and leaves no
\* request in flight that would run it again.  (A step that sets the
\* response to a failure of one of the three is a step of that handler.)
C33_FailedRequestLeavesStore ==
    [][(/\ resp'.op \in {"login", "refresh", "verify"}
        /\ resp'.status # 200
        /\ resp' # resp)
         => /\ store' = store
            /\ pc' = pc]_vars

\* a verification with an expired or consumed token has failed and the
\* token row and its user are still stored
C33_Witness ==
    /\ resp.op = "verify"
    /\ resp.status = 400
    /\ resp.case = "dead_token"
    /\ \E t \in vtokens, u \in users : t.user_id = u.id

(***************************************************************************)
(* Interruption of a purge run.  The task is declared with a soft time     *)
(* limit; when it expires the worker raises SoftTimeLimitExceeded inside   *)
(* the running task, wherever it is.  The loop has no cancellation check   *)
(* of its own.                                                             *)
(***************************************************************************)
\* the exception leaves the session (an open batch rolls back and its row
\* locks are released) and reaches the except clause: self.retry
PurgeInterrupt(p) ==
    /\ pc[p].state \in {"purge_select", "purge_commit"}
    /\ IF pc[p].retries < MAX_RETRIES
       THEN /\ pc' = [pc EXCEPT ![p] =
                        PurgeRun("purge_retry", pc[p].cutoff_time, 0, {},
                                 pc[p].retries + 1)]
            /\ resp' = Response("delete_unverified_users", 0, "retry",
                                NoToken, NoToken, "time_limit")
       ELSE /\ pc' = [pc EXCEPT ![p] = Idle]
            /\ resp' = Response("delete_unverified_users", 0, "failure",
                                NoToken, NoToken, "time_limit")
    /\ UNCHANGED <<store, now, ticks, outbox, signedUp>>

NextCancel ==
    \/ NextPurge
    \/ \E p \in Procs : PurgeInterrupt(p)

SpecCancel == Init /\ [][NextCancel]_vars

\* C34 as stated: a purge run is interrupted only between batches, before
\* the next batch is selected, and never while it holds a batch whose
\* deletions are not yet committed.
C34_InterruptOnlyBetweenBatches ==
    [][\A p \in Procs :
         (resp'.case = "time_limit" /\ PurgeInterrupt(p))
            => pc[p].state = "purge_select"]_vars

(***************************************************************************)
(* Spacing of retries                                                      *)
(***************************************************************************)
\* the cap of retry_on_exception, in seconds
RETRY_DELAY_CAP == 3600

\* C35 as stated: the retries of a failing retention job are spaced with
\* increasing delays: when an execution that was itself a retry fails and
\* asks for the next retry, the delay it asks for is larger than the delay
\* that preceded it, unless it has reached the cap.
C35_RetryDelayIncreases ==
    [][\A p \in Procs :
         (/\ pc[p].state = "purge_commit"
          /\ pc[p].retries >= 1
          /\ PurgeCommit(p)
          /\ pc'[p].state = "purge_retry")
            => \/ pc'[p].countdown > pc[p].countdown
               \/ pc'[p].countdown = RETRY_DELAY_CAP]_vars

(***************************************************************************)
(* Termination of the purge.  A run that has started is carried on by the  *)
(* worker: its next SELECT or commit is eventually executed.               *)
(***************************************************************************)
\* the purge runs with the traffic beside them; the clock steps past the
\* cutoff age
NextPurgeFair ==
    \/ Tick(DAYS_OLD * MINUTES_PER_DAY + 1)
    \/ \E p \in SeqProcs, email \in Emails, password \in SignupPasswords :
          SignupCheck(p, email, password, "USER")
    \/ \E p \in SeqProcs : SignupCommit(p)
    \/ \E p \in SeqProcs, value \in 0..MaxUsers : VerifyLookup(p, value)
    \/ \E p \in SeqProcs : VerifyCommitUnlocked(p)
    \/ cleanup_expired_tokens
    \/ \E p \in Procs : PurgeStart(p, DAYS_OLD)
    \/ \E p \in Procs : PurgeSelect(p)
    \/ \E p \in Procs : PurgeCommit(p)

SpecPurgeFair ==
    /\ Init
    /\ [][NextPurgeFair]_vars
    /\ \A p \in Procs : WF_vars(PurgeSelect(p)) /\ WF_vars(PurgeCommit(p))

\* C36: every execution of the purge terminates, whatever signup and
\* verification requests and other purge runs go on beside it: a run that
\* is in its loop eventually leaves it, by returning or by raising.
C36_PurgeTerminates ==
    \A p \in Procs :
        (pc[p].state \in {"purge_select", "purge_commit"})
            ~> (pc[p].state \in {"idle", "purge_retry"})

\* two runs overlap, one of them past its first batch
C36_Witness ==
    \E p \in Procs, q \in Procs :
        /\ p # q
        /\ pc[p].state = "purge_select"
        /\ pc[p].deleted_count >= 1
        /\ pc[q].state \in {"purge_select", "purge_commit"}

(***************************************************************************)
(* The token cleanup under concurrency.  A run awaits the store at its two *)
(* SELECTs, taken as one step, and at its commit; the rows it read are     *)
(* kept in pc.                                                             *)
(***************************************************************************)
\* the two SELECTs (no row lock) and the counts taken from their results
CleanupSelect(p) ==
    /\ pc[p].state = "idle"
    /\ pc' = [pc EXCEPT ![p] =
                [state |-> "cleanup_commit",
                 refresh_tokens |->
                     {r.id : r \in {x \in rtokens : x.expires_at < now}},
                 verification_tokens |->
                     {v.id : v \in {x \in vtokens : x.expires_at < now}}]]
    /\ UNCHANGED <<store, now, ticks, outbox, signedUp, resp>>

\* session.delete of every row read, commit, return of the counts.  A
\* DELETE of a row that is gone matches nothing and does not fail.
CleanupCommit(p) ==
    /\ pc[p].state = "cleanup_commit"
    /\ rtokens' = {r \in rtokens : r.id \notin pc[p].refresh_tokens}
    /\ vtokens' = {v \in vtokens : v.id \notin pc[p].verification_tokens}
    /\ resp' = [Response("cleanup_expired_tokens", 0, "success", NoToken,
                         NoToken, "")
                  EXCEPT !.deleted_refresh_tokens =
                             Cardinality(pc[p].refresh_tokens),
                         !.deleted_verification_tokens =
                             Cardinality(pc[p].verification_tokens)]
    /\ pc' = [pc EXCEPT ![p] = Idle]
    /\ UNCHANGED <<users, nextUserId, nextVTokenId, nextRTokenId, now,
                   ticks, outbox, signedUp>>

NextCleanup ==
    \/ \E d \in TickSteps : Tick(d)
    \/ \E p \in Procs : CleanupSelect(p)
    \/ \E p \in Procs : CleanupCommit(p)

SpecCleanup == InitRefresh /\ [][NextCleanup]_vars

\* C37 as stated: when two cleanup runs overlap, no row is counted by both:
\* the counts a run returns are the numbers of refresh token rows and of
\* verification token rows its commit removed, so the counts of the two
\* runs add up to the rows removed.
C37_CleanupCountsOnce ==
    [][\A p \in Procs :
         (resp'.op = "cleanup_expired_tokens" /\ CleanupCommit(p))
            => /\ resp'.deleted_refresh_tokens
                     = Cardinality(rtokens) - Cardinality(rtokens')
               /\ resp'.deleted_verification_tokens
                     = Cardinality(vtokens) - Cardinality(vtokens')]_vars

(***************************************************************************)
(* Expiry: the cleanup against the request path.  The store is seeded as   *)
(* for refresh, with each of the two users either verified (its            *)
(* verification token consumed) or not (its token unconsumed).             *)
(***************************************************************************)
\* stored refresh token rows: the token issued to user 1, live for its
\* lifetime or for 15 minutes, revoked or not
ExpiryRowShapes ==
    {r \in RowShapes : r.user_id = 1 /\ r.token = SeedToken}

InitExpiry ==
    /\ \E verified \in SUBSET (1..2) :
          /\ users = {[u EXCEPT !.is_verified = (u.id \in verified)] :
                        u \in SeedUsers}
          /\ vtokens = {[t EXCEPT !.revoked = (t.user_id \in verified)] :
                          t \in SeedVTokens}
    /\ \E n \in 0..MaxRows : \E f \in [1..n -> ExpiryRowShapes] :
          /\ rtokens = {[id |-> i, user_id |-> f[i].user_id,
                         token |-> f[i].token, created_at |-> f[i].created_at,
                         expires_at |-> f[i].expires_at,
                         revoked |-> f[i].revoked] : i \in 1..n}
          /\ nextRTokenId = n + 1
    /\ nextUserId = 3
    /\ nextVTokenId = 3
    /\ now = 0
    /\ ticks = 0
    /\ pc = [p \in Procs |-> Idle]
    /\ outbox = {1, 2}
    /\ signedUp = {"a@x.com", "b@x.com"}
    /\ resp = Response("init", 0, "", NoToken, NoToken, "")

NextExpiry ==
    \/ \E d \in TickSteps : Tick(d)
    \/ \E token \in RefreshInputs : refresh_token(token)
    \/ \E value \in 0..MaxUsers : verify_email(value)
    \/ cleanup_expired_tokens

SpecExpiry == InitExpiry /\ [][NextExpiry]_vars

\* C38: the cleanup never removes a token the request path would still
\* accept.  Every row a cleanup run removes has expires_at < now; a refresh
\* or a verifyEmail succeeds only on a row with expires_at > now; so a row
\* with expires_at = now is not removed, and a request that has only such
\* rows to go by is refused.
C38_CleanupSparesUsableTokens ==
    [][/\ (resp'.op = "cleanup_expired_tokens" /\ cleanup_expired_tokens)
            => /\ \A r \in rtokens \ rtokens' : r.expires_at < now
               /\ \A v \in vtokens \ vtokens' : v.expires_at < now
       /\ \A token \in RefreshInputs :
            (resp'.op = "refresh" /\ resp'.status = 200
               /\ refresh_token(token))
              => \E r \in rtokens : r.token = token /\ r.expires_at > now
       /\ \A value \in 0..MaxUsers :
            (resp'.op = "verify" /\ resp'.status = 200
               /\ verify_email(value))
              => \E v \in vtokens : v.token = value /\ v.expires_at > now]_vars

\* at the instant a token expires a cleanup run has left it in place, and
\* the token is not accepted any more
C38_Witness ==
    /\ resp.op = "cleanup_expired_tokens"
    /\ resp.deleted_verification_tokens = 0
    /\ \E v \in vtokens : ~v.revoked /\ v.expires_at = now
    /\ \E r \in rtokens : ~r.revoked /\ r.expires_at = now
                          /\ RefreshCase(r.token) = "expired_row"

(***************************************************************************)
(* Signup and its notification.  The handler commits the user and the      *)
(* token, then awaits send_email; the two are taken as separate steps.     *)
(* send_email catches whatever the SMTP exchange raises, logs it and       *)
(* returns False; the handler ignores the returned value.                  *)
(***************************************************************************)
\* db.add(new_user); flush; db.add(v_token); commit
SignupPersist(p) ==
    /\ pc[p].state = "checked"
    /\ IF ~UserEmailUnique(users, pc[p].email)
       THEN /\ pc' = [pc EXCEPT ![p] = Idle]
            /\ resp' = global_exception_handler("signup", SignupCase(p))
            /\ UNCHANGED <<store, signedUp>>
       ELSE /\ nextUserId <= MaxUsers
            /\ users' = users \cup
                 {[id |-> nextUserId, email |-> pc[p].email,
                   hashed_password |-> get_password_hash(pc[p].password),
                   is_verified |-> FALSE, role |-> pc[p].role,
                   created_at |-> now]}
            /\ vtokens' = vtokens \cup
                 {[id |-> nextVTokenId, user_id |-> nextUserId,
                   token |-> nextVTokenId,
                   token_type |-> "email_verification",
                   expires_at |-> now + VERIFICATION_TOKEN_EXPIRE_MINUTES,
                   is_used |-> FALSE, revoked |-> FALSE]}
            /\ nextUserId' = nextUserId + 1
            /\ nextVTokenId' = nextVTokenId + 1
            /\ signedUp' = signedUp \cup {pc[p].email}
            /\ pc' = [pc EXCEPT ![p] =
                        [state |-> "committed", email |-> pc[p].email,
                         password |-> pc[p].password, role |-> pc[p].role,
                         token |-> nextVTokenId]]
            /\ UNCHANGED <<rtokens, nextRTokenId, resp>>
    /\ UNCHANGED <<now, ticks, outbox>>

\* a failed delivery fails the request
SignupNotify_RaisesOnFailure(p, delivered) ==
    /\ pc[p].state = "committed"
    /\ pc' = [pc EXCEPT ![p] = Idle]
    /\ outbox' = IF EMAIL_VERIFICATION_ENABLED
                 THEN outbox \cup {pc[p].token} ELSE outbox
    /\ resp' = IF delivered
               THEN Response("signup", 201,
                      "User registered successfully. Please check your email to verify your account.",
                      NoToken, NoToken, "delivered")
               ELSE global_exception_handler("signup", "send_failed")
    /\ UNCHANGED <<store, now, ticks, signedUp>>

\* the verification URL with the token is handed to send_email, which
\* delivers it or fails; the handler returns its message either way
SignupNotify(p, delivered) ==
    /\ pc[p].state = "committed"
    /\ pc' = [pc EXCEPT ![p] = Idle]
    /\ outbox' = IF EMAIL_VERIFICATION_ENABLED
                 THEN outbox \cup {pc[p].token} ELSE outbox
    /\ resp' = Response("signup", 201,
                 "User registered successfully. Please check your email to verify your account.",
                 NoToken, NoToken,
                 IF delivered THEN "delivered" ELSE "send_failed")
    /\ UNCHANGED <<store, now, ticks, signedUp>>

\* signup requests in their steps against verification and the retention
\* jobs; the handler does not suspend between its commit and the call of
\* send_email, so the clock (in minutes) stands still in between
NextNotify ==
    \/ \E d \in TickSteps :
          /\ \A p \in Procs : pc[p].state # "committed"
          /\ Tick(d)
    \/ \E p \in Procs, email \in Emails, password \in SignupPasswords :
          SignupCheck(p, email, password, "USER")
    \/ \E p \in Procs : SignupPersist(p)
    \/ \E p \in Procs, delivered \in BOOLEAN : SignupNotify(p, delivered)
    \/ \E value \in 0..MaxUsers : verify_email(value)
    \/ cleanup_expired_tokens
    \/ delete_unverified_users(DAYS_OLD)

SpecNotify == Init /\ [][NextNotify]_vars

\* C39: the notification is triggered only after the signup has committed,
\* and its outcome changes nothing: every step that hands a verification
\* URL to the notification collaborator finds the token row with that value
\* and its user stored, leaves the store as it is and answers 201, whether
\* the delivery succeeds or fails; and no other step hands anything over.
C39_NotifyAfterCommit ==
    [][/\ \A p \in Procs, delivered \in BOOLEAN :
            (pc[p].state = "committed" /\ SignupNotify(p, delivered))
              => /\ \E t \in vtokens :
                       /\ t.token = pc[p].token
                       /\ \E u \in users :
                             u.id = t.user_id /\ u.email = pc[p].email
                 /\ outbox' = outbox \cup {pc[p].token}
                 /\ store' = store
                 /\ resp'.status = 201
       /\ outbox' # outbox
            => \E p \in Procs, delivered \in BOOLEAN :
                  SignupNotify(p, delivered)]_vars

\* a signup whose notification failed has been answered 201 and its rows
\* are stored
C39_Witness ==
    /\ resp.op = "signup"
    /\ resp.status = 201
    /\ resp.case = "send_failed"
    /\ \E t \in vtokens : t.token \in outbox
          /\ \E u \in users : u.id = t.user_id


\* C40: signup never creates a privileged account: every User row a step
\* adds to the store (only signup adds users) has role USER, whatever role
\* the caller put in the request.
C40_SignupCreatesPlainUsers ==
    [][\A u \in users' \ users : u.role = "USER"]_vars

====
